---- MODULE Spec2Model ----
(***************************************************************************)
(* Verification model of the AxiomDeterminist pipeline of Deoxys-V2:       *)
(*   - DependencyGraph   (src-tauri/src/axiom_determinist/dag.rs)          *)
(*   - ReflexionLoop     (src-tauri/src/axiom_determinist/reflexion.rs)    *)
(*   - HermeticSandbox   (src-tauri/src/axiom_determinist/sandbox.rs)      *)
(*   - Orchestrator      (src-tauri/src/axiom_determinist/orchestrator.rs) *)
(* Three specifications share the variables: SpecDag drives the graph      *)
(* operations, SpecLoop drives ReflexionLoop::execute with arbitrary       *)
(* validate/repair closures, SpecOrch drives Orchestrator::execute.        *)
(***************************************************************************)
EXTENDS Integers, Sequences, FiniteSets, TLC

VARIABLES
    dag,                \* DependencyGraph: nodes, adjacency_list, reverse_adjacency
    adds,               \* number of add_node calls made so far (model bound)
    last,               \* the last graph operation: its arguments and its result
    max_retries,        \* ReflexionLoop.max_retries
    current_iteration,  \* ReflexionLoop.current_iteration
    repair_history,     \* ReflexionLoop.repair_history
    call,               \* the ReflexionLoop::execute invocation in progress
    orch                \* the Orchestrator::execute invocation in progress

vars == <<dag, adds, last, max_retries, current_iteration, repair_history, call, orch>>

dagVars == <<dag, adds, last>>
loopVars == <<max_retries, current_iteration, repair_history, call>>

(***************************************************************************)
(* Bounds of the model.                                                    *)
(***************************************************************************)
MaxAdds == 2        \* add_node calls per behaviour of SpecDag
MaxDeps == 2        \* length of a unit's dependency list in SpecDag
MaxRetryBudget == 2 \* largest max_retries a ReflexionLoop is constructed with
MaxCalls == 2       \* ReflexionLoop::execute calls per behaviour of SpecLoop
MaxRuns == 2        \* Orchestrator::execute calls per behaviour of SpecOrch
MaxUnits == 3       \* add_node calls per behaviour of SpecUnits
MaxUnitDeps == 1    \* length of a unit's dependency list in SpecUnits
MaxLines == 3       \* segments of a text given to validate in SpecValidate
MaxInputLen == 4    \* characters of the input of calculate_risk in SpecRisk
MaxToonLen == 3     \* characters of the input of ToonParser::new in SpecToon

DagIds == {"A", "B", "C"}
Interfaces == {"if1", "if2"}

RECURSIVE SeqsUpTo(_, _)
SeqsUpTo(S, n) ==
    IF n = 0 THEN {<<>>}
    ELSE LET shorter == SeqsUpTo(S, n - 1)
         IN  shorter \cup {Append(s, x) : s \in {t \in shorter : Len(t) = n - 1}, x \in S}

DepLists == SeqsUpTo(DagIds, MaxDeps)

(***************************************************************************)
(* HashMap helpers: a map is a function whose domain is its key set.       *)
(***************************************************************************)
EmptyMap == [k \in {} |-> <<>>]

MapInsert(m, k, v) == [x \in (DOMAIN m) \cup {k} |-> IF x = k THEN v ELSE m[x]]

MapGetOr(m, k, default) == IF k \in DOMAIN m THEN m[k] ELSE default

Range(s) == {s[i] : i \in DOMAIN s}

Max(S) == IF S = {} THEN 0 ELSE CHOOSE x \in S : \A y \in S : y <= x

\* the longest dependency list recorded in the graph
MaxListLen(g) == Max({Len(g.adjacency_list[u]) : u \in DOMAIN g.adjacency_list})

(***************************************************************************)
(* DependencyGraph                                                         *)
(***************************************************************************)
\* DependencyNode: the fields the pipeline reads
DependencyNode(id, module_type, public_interface, dependencies) ==
    [id |-> id, file_path |-> id, module_type |-> module_type,
     public_interface |-> public_interface, dependencies |-> dependencies]

\* DependencyGraph::new
NewGraph == [nodes |-> EmptyMap, adjacency_list |-> EmptyMap, reverse_adjacency |-> EmptyMap]

\* the while-let loop of would_create_cycle: depth-first search over adjacency_list
RECURSIVE CycleSearch(_, _, _, _)
CycleSearch(g, new_node_id, stack, visited) ==
    IF stack = <<>> THEN FALSE
    ELSE LET current == stack[Len(stack)]
             popped == SubSeq(stack, 1, Len(stack) - 1)
         IN  IF current \in visited THEN CycleSearch(g, new_node_id, popped, visited)
             ELSE IF current = new_node_id THEN TRUE
             ELSE LET seen == visited \cup {current}
                      deps == MapGetOr(g.adjacency_list, current, <<>>)
                      fresh == SelectSeq(deps, LAMBDA d : d \notin seen)
                  IN  CycleSearch(g, new_node_id, popped \o fresh, seen)

\* a mutant of would_create_cycle: an identifier already in the graph is
\* searched for only as a direct self-reference, so a re-insertion is not
\* checked against the recorded edges
would_create_cycle_new_ids_only(g, new_node_id, new_deps) ==
    IF \E i \in DOMAIN new_deps : new_deps[i] = new_node_id
    THEN TRUE
    ELSE new_node_id \notin DOMAIN g.nodes /\ CycleSearch(g, new_node_id, new_deps, {})

\* a mutant of would_create_cycle: only the direct self-reference is detected
would_create_cycle_direct_only(g, new_node_id, new_deps) ==
    \E i \in DOMAIN new_deps : new_deps[i] = new_node_id

would_create_cycle(g, new_node_id, new_deps) ==
    IF \E i \in DOMAIN new_deps : new_deps[i] = new_node_id
    THEN TRUE
    ELSE CycleSearch(g, new_node_id, new_deps, {})

\* the for loop of add_node that pushes the node id on each dependency's reverse list
RECURSIVE PushReverse(_, _, _)
PushReverse(rev, deps, id) ==
    IF deps = <<>> THEN rev
    ELSE PushReverse(MapInsert(rev, Head(deps), Append(MapGetOr(rev, Head(deps), <<>>), id)),
                     Tail(deps), id)

\* DependencyGraph::add_node: [ok, graph]
add_node(g, node) ==
    IF would_create_cycle(g, node.id, node.dependencies)
    THEN [ok |-> FALSE, graph |-> g]
    ELSE [ok |-> TRUE,
          graph |-> [nodes |-> MapInsert(g.nodes, node.id, node),
                     adjacency_list |-> MapInsert(g.adjacency_list, node.id, node.dependencies),
                     reverse_adjacency |-> PushReverse(g.reverse_adjacency, node.dependencies, node.id)]]

\* a mutant of get_reachable_context: follows reverse_adjacency (the dependents)
\* instead of the node's own dependency list
get_reachable_context_dependents(g, node_id) ==
    IF node_id \in DOMAIN g.nodes
    THEN LET deps == MapGetOr(g.reverse_adjacency, node_id, <<>>)
             present == SelectSeq(deps, LAMBDA d : d \in DOMAIN g.nodes)
         IN  [i \in 1..Len(present) |-> g.nodes[present[i]].public_interface]
    ELSE <<>>

\* DependencyGraph::get_reachable_context
\* the elements of a finite set as a sequence, in some order
RECURSIVE SetToSeq(_)
SetToSeq(S) ==
    IF S = {} THEN <<>>
    ELSE LET x == CHOOSE y \in S : TRUE IN <<x>> \o SetToSeq(S \ {x})

\* the inserted units reachable from the set S along recorded dependency edges
RECURSIVE Closure(_, _)
Closure(g, S) ==
    LET step == S \cup UNION {Range(g.adjacency_list[u]) : u \in S \cap DOMAIN g.adjacency_list}
    IN  IF step = S THEN S \cap DOMAIN g.nodes ELSE Closure(g, step)

\* a mutant of get_reachable_context: the context holds the interfaces of the
\* whole dependency closure of the unit, not only of its direct dependencies
get_reachable_context_transitive(g, node_id) ==
    IF node_id \in DOMAIN g.nodes
    THEN LET reached == SetToSeq(Closure(g, Range(g.nodes[node_id].dependencies)))
         IN  [i \in DOMAIN reached |-> g.nodes[reached[i]].public_interface]
    ELSE <<>>

get_reachable_context(g, node_id) ==
    IF node_id \in DOMAIN g.nodes
    THEN LET deps == g.nodes[node_id].dependencies
             present == SelectSeq(deps, LAMBDA d : d \in DOMAIN g.nodes)
         IN  [i \in 1..Len(present) |-> g.nodes[present[i]].public_interface]
    ELSE <<>>

\* the in-degree table after lines 117-129; the unwrap of line 127 panics when a
\* dependency id is no key of nodes
InDegreePanics(g) ==
    \E u \in DOMAIN g.adjacency_list :
        \E i \in DOMAIN g.adjacency_list[u] : g.adjacency_list[u][i] \notin DOMAIN g.nodes

InDegree(g) ==
    [n \in DOMAIN g.nodes |->
        Cardinality({p \in {<<u, i>> : u \in DOMAIN g.adjacency_list, i \in 1..MaxListLen(g)} :
                        /\ p[2] \in DOMAIN g.adjacency_list[p[1]]
                        /\ g.adjacency_list[p[1]][p[2]] = n})]

\* the for loop over the dependents of a popped node (lines 144-150).
\* `*degree -= 1` on a zero usize panics when overflow checks are compiled in
\* and wraps otherwise; a wrapped degree 2^64 - k is written -k here: it is
\* only ever compared with 0, which it cannot reach again.
RECURSIVE Relax(_, _, _, _)
Relax(dependents, in_degree, queue, overflow_checks) ==
    IF dependents = <<>>
    THEN [panic |-> FALSE, in_degree |-> in_degree, queue |-> queue]
    ELSE LET dependent == Head(dependents)
         IN  IF dependent \notin DOMAIN in_degree
             THEN [panic |-> TRUE, in_degree |-> in_degree, queue |-> queue]
             ELSE IF in_degree[dependent] = 0 /\ overflow_checks
             THEN [panic |-> TRUE, in_degree |-> in_degree, queue |-> queue]
             ELSE LET degree == in_degree[dependent] - 1
                  IN  Relax(Tail(dependents),
                            [in_degree EXCEPT ![dependent] = degree],
                            IF degree = 0 THEN Append(queue, dependent) ELSE queue,
                            overflow_checks)

\* the while-let loop of Kahn's algorithm (lines 139-152)
RECURSIVE Kahn(_, _, _, _, _)
Kahn(g, in_degree, queue, result, overflow_checks) ==
    IF queue = <<>>
    THEN [panic |-> FALSE, result |-> result]
    ELSE LET node_id == Head(queue)
             r == Relax(MapGetOr(g.reverse_adjacency, node_id, <<>>), in_degree,
                        Tail(queue), overflow_checks)
         IN  IF r.panic
             THEN [panic |-> TRUE, result |-> <<>>]
             ELSE Kahn(g, r.in_degree, r.queue, Append(result, node_id), overflow_checks)

SortOk(order) == [kind |-> "Ok", order |-> order]
SortErr == [kind |-> "Err", order |-> <<>>]
SortPanic == [kind |-> "Panic", order |-> <<>>]

\* DependencyGraph::topological_sort.  key_order is the order in which the
\* in_degree HashMap is iterated (any permutation of its keys); overflow_checks
\* tells whether the build panics on integer overflow.
topological_sort(g, key_order, overflow_checks) ==
    IF InDegreePanics(g) THEN SortPanic
    ELSE LET in_degree == InDegree(g)
             queue == SelectSeq(key_order, LAMBDA n : in_degree[n] = 0)
             k == Kahn(g, in_degree, queue, <<>>, overflow_checks)
         IN  IF k.panic THEN SortPanic
             ELSE IF Len(k.result) # Cardinality(DOMAIN g.nodes) THEN SortErr
             ELSE SortOk(k.result)

\* the iteration orders a HashMap with key set S can produce
KeyOrders(S) == {s \in [1..Cardinality(S) -> S] : Range(s) = S}

(***************************************************************************)
(* Text.  A String is the sequence of its segments between '\n' characters *)
(* (at least one segment); a segment is a sequence of tokens, each token a *)
(* run of characters that the validator's patterns never straddle.         *)
(***************************************************************************)
Str(tokens) == <<tokens>>
EmptyStr == <<<<>>>>

\* string concatenation: the last segment of a joins the first segment of b
StrCat(a, b) ==
    SubSeq(a, 1, Len(a) - 1) \o <<a[Len(a)] \o b[1]>> \o SubSeq(b, 2, Len(b))

\* the concatenation of a sequence of strings (by halves, as Flatten)
RECURSIVE StrConcat(_)
StrConcat(parts) ==
    IF parts = <<>> THEN EmptyStr
    ELSE IF Len(parts) = 1 THEN parts[1]
    ELSE LET half == Len(parts) \div 2
         IN  StrCat(StrConcat(SubSeq(parts, 1, half)),
                    StrConcat(SubSeq(parts, half + 1, Len(parts))))

\* str::lines: the segments, without a final empty one
Lines(code) ==
    IF code[Len(code)] = <<>> THEN SubSeq(code, 1, Len(code) - 1) ELSE code

\* the patterns that occur inside a longer token
TokenInfixes ==
    {<<"NotImplementedError", "NotImplemented">>,
     <<"// TODO", "TODO">>,
     <<"// TODO", " TODO">>,
     <<"// FIXME", "FIXME">>,
     <<"// FIXME", " FIXME">>,
     <<"todo!()", "todo">>,
     <<"todo!(\"later\")", "todo">>}

TokenContains(token, pattern) == token = pattern \/ <<token, pattern>> \in TokenInfixes

\* str::contains on one line
LineContains(line, pattern) == \E i \in DOMAIN line : TokenContains(line[i], pattern)

\* str::contains on a whole text, for patterns without a line break
CodeContains(code, pattern) == \E n \in DOMAIN code : LineContains(code[n], pattern)

\* the concatenation of a sequence of sequences (by halves, which keeps the
\* evaluation shallow on long texts)
RECURSIVE Flatten(_)
Flatten(seqs) ==
    IF seqs = <<>> THEN <<>>
    ELSE IF Len(seqs) = 1 THEN seqs[1]
    ELSE LET half == Len(seqs) \div 2
         IN  Flatten(SubSeq(seqs, 1, half)) \o Flatten(SubSeq(seqs, half + 1, Len(seqs)))

Some(x) == <<x>>
None == <<>>

(***************************************************************************)
(* HermeticSandbox                                                         *)
(***************************************************************************)
\* ValidationError; file and column are None in every finding the sandbox makes
ValidationError(severity, message, line, error_type) ==
    [severity |-> severity, message |-> message, line |-> line, error_type |-> error_type]

\* banned_patterns of check_sterilization, in the order of the vec
BannedPatterns ==
    <<"TODO", "FIXME", "XXX", "HACK", "NotImplementedError", "NotImplemented",
      "omitted for brevity", "rest of code", "left as an exercise",
      "implementation omitted">>

\* a mutant of check_sterilization: the finding carries the 0-based line index
check_sterilization_zero_based(code) ==
    LET lines == Lines(code)
        hit(n, k) ==
            IF LineContains(lines[n], BannedPatterns[k])
            THEN <<ValidationError("Fatal",
                                   <<"Sterilization violation: Found '", BannedPatterns[k], "'">>,
                                   Some(n - 1), "SterilizationViolation")>>
            ELSE <<>>
    IN  Flatten([n \in 1..Len(lines) |->
                    Flatten([k \in 1..Len(BannedPatterns) |-> hit(n, k)])])

\* HermeticSandbox::check_sterilization
check_sterilization(code) ==
    LET lines == Lines(code)
        hit(n, k) ==
            IF LineContains(lines[n], BannedPatterns[k])
            THEN <<ValidationError("Fatal",
                                   <<"Sterilization violation: Found '", BannedPatterns[k], "'">>,
                                   Some(n), "SterilizationViolation")>>
            ELSE <<>>
    IN  Flatten([n \in 1..Len(lines) |->
                    Flatten([k \in 1..Len(BannedPatterns) |-> hit(n, k)])])

\* HermeticSandbox::validate_rust
validate_rust(code) ==
    IF CodeContains(code, "unimplemented!()") \/ CodeContains(code, "todo!()")
    THEN <<ValidationError("Fatal", <<"Found unimplemented!() or todo!() macro">>,
                           None, "SterilizationViolation")>>
    ELSE <<>>

\* HermeticSandbox::validate_javascript
validate_javascript(code) ==
    IF CodeContains(code, "// TODO") \/ CodeContains(code, "// FIXME")
    THEN <<ValidationError("Fatal", <<"Found TODO or FIXME comment">>,
                           None, "SterilizationViolation")>>
    ELSE <<>>

\* the tokens that consist of white space only
Whitespace == {" ", "    ", "\t"}

RECURSIVE TrimStart(_)
TrimStart(line) ==
    IF line # <<>> /\ Head(line) \in Whitespace THEN TrimStart(Tail(line)) ELSE line

RECURSIVE TrimEnd(_)
TrimEnd(line) ==
    IF line # <<>> /\ line[Len(line)] \in Whitespace
    THEN TrimEnd(SubSeq(line, 1, Len(line) - 1))
    ELSE line

\* str::trim
Trim(line) == TrimEnd(TrimStart(line))

\* the prefixes that begin a longer token
TokenPrefixes ==
    {<<"###_STERILIZATION_PROTOCOL_v1_###", "#">>}

\* str::starts_with
StartsWith(line, prefix) ==
    line # <<>> /\ (line[1] = prefix \/ <<line[1], prefix>> \in TokenPrefixes)

\* the tokens whose last character is ':'
ColonTokens ==
    {":", "The following code failed the sterilization check:", "Error Details:",
     "Validation Errors:", "Generate the complete, fixed code:"}

\* str::ends_with(':')
EndsWithColon(line) == line # <<>> /\ line[Len(line)] \in ColonTokens

\* the net count of one delimiter kind over a text: +1 per opener, -1 per closer
\* (the other tokens hold no delimiter or a balanced pair, as "todo!()" does)
RECURSIVE LineBalance(_, _, _)
LineBalance(line, opener, closer) ==
    IF line = <<>> THEN 0
    ELSE (IF Head(line) = opener THEN 1 ELSE IF Head(line) = closer THEN -1 ELSE 0)
         + LineBalance(Tail(line), opener, closer)

RECURSIVE Balance(_, _, _)
Balance(lines, opener, closer) ==
    IF lines = <<>> THEN 0
    ELSE LineBalance(Head(lines), opener, closer) + Balance(Tail(lines), opener, closer)

SyntaxFinding(message, line) == ValidationError("Error", <<message>>, line, "SyntaxError")

\* HermeticSandbox::validate_python.  The look-ahead of lines 196-214 only sets a
\* local flag that nothing reads, so it contributes no finding.
validate_python(code) ==
    LET lines == Lines(code)
        unmatched(opener, closer, message) ==
            IF Balance(lines, opener, closer) # 0 THEN <<SyntaxFinding(message, None)>> ELSE <<>>
        after_colon(i) ==
            IF EndsWithColon(Trim(lines[i])) /\ i + 1 <= Len(lines)
            THEN LET next_line == lines[i + 1]
                 IN  IF /\ Trim(next_line) # <<>>
                        /\ ~StartsWith(next_line, "    ")
                        /\ ~StartsWith(next_line, "\t")
                        /\ ~StartsWith(Trim(next_line), "#")
                        /\ ~StartsWith(Trim(next_line), "def ")
                        /\ ~StartsWith(Trim(next_line), "class ")
                     THEN <<SyntaxFinding("Expected indented block after colon", Some(i + 1))>>
                     ELSE <<>>
            ELSE <<>>
    IN  unmatched("(", ")", "Unmatched parentheses detected")
        \o unmatched("[", "]", "Unmatched square brackets detected")
        \o unmatched("{", "}", "Unmatched curly braces detected")
        \o Flatten([i \in 1..Len(lines) |-> after_colon(i)])

\* the look-ahead of analyze_ast from line j on (lines 330-341): TRUE when the
\* function defined just above has found_pass and not found_other
RECURSIVE OnlyPass(_, _, _)
OnlyPass(lines, j, found_pass) ==
    IF j > Len(lines) THEN found_pass
    ELSE LET next_line == Trim(lines[j])
         IN  IF next_line = <<"pass">> \/ next_line = <<"...">>
             THEN OnlyPass(lines, j + 1, TRUE)
             ELSE IF next_line # <<>> /\ ~StartsWith(next_line, "#")
             THEN FALSE
             ELSE OnlyPass(lines, j + 1, found_pass)

\* HermeticSandbox::analyze_ast
analyze_ast(code, language) ==
    IF language = "python"
    THEN LET lines == Lines(code)
             empty_block(i) ==
                 IF StartsWith(Trim(lines[i]), "def ") /\ OnlyPass(lines, i + 1, FALSE)
                 THEN <<ValidationError("Fatal", <<"Function contains only 'pass' statement">>,
                                        Some(i), "EmptyBlock")>>
                 ELSE <<>>
         IN  Flatten([i \in 1..Len(lines) |-> empty_block(i)])
    ELSE <<>>

\* ValidationResult; warnings is always empty, build_output and test_results None
ValidationResult(passed, errors) == [passed |-> passed, errors |-> errors]

\* the findings of the language match of validate (lines 98-121)
LanguageFindings(code, language) ==
    CASE language = "python" -> validate_python(code)
      [] language = "rust" -> validate_rust(code)
      [] language \in {"javascript", "typescript"} -> validate_javascript(code)
      [] OTHER -> <<ValidationError("Warning", <<"Unknown language: ", language>>,
                                    None, "LintError")>>

\* a mutant of Passed: only Fatal findings fail the validation
PassedUnlessFatal(errors) == \A i \in DOMAIN errors : errors[i].severity # "Fatal"

\* line 128 of validate
Passed(errors) == \A i \in DOMAIN errors : errors[i].severity \notin {"Fatal", "Error"}

\* HermeticSandbox::validate
validate(code, language) ==
    LET errors == check_sterilization(code)
                  \o LanguageFindings(code, language)
                  \o analyze_ast(code, language)
    IN  ValidationResult(Passed(errors), errors)

(***************************************************************************)
(* ReflexionLoop                                                           *)
(***************************************************************************)
SeverityTag(severity) ==
    CASE severity = "Fatal" -> "FATAL"
      [] severity = "Error" -> "ERROR"
      [] severity = "Warning" -> "WARNING"

\* ReflexionLoop::analyze_errors
analyze_errors(validation_result) ==
    IF validation_result.errors = <<>>
    THEN Str(<<"No errors found">>)
    ELSE LET digest(error) ==
                 StrCat(<<<<"[", SeverityTag(error.severity), "]", " ", error.error_type, ": ">>
                            \o error.message, <<>>>>,
                        IF error.line # None
                        THEN <<<<"  Location: Line ", ToString(error.line[1])>>, <<>>>>
                        ELSE EmptyStr)
         IN  StrCat(<<<<"Validation Errors:">>, <<>>>>,
                    StrConcat([i \in DOMAIN validation_result.errors |->
                                  digest(validation_result.errors[i])]))

\* detect_language
detect_language(code) ==
    IF CodeContains(code, "fn ") \/ CodeContains(code, "impl ") \/ CodeContains(code, "struct ")
    THEN "rust"
    ELSE IF CodeContains(code, "def ") \/ CodeContains(code, "import ")
            \/ CodeContains(code, "class ")
    THEN "python"
    ELSE IF CodeContains(code, "function ") \/ CodeContains(code, "const ")
            \/ CodeContains(code, "let ")
    THEN "javascript"
    ELSE "unknown"

\* the three backquotes that fence the code in the repair prompt
CodeFence == "<fence>"

\* a mutant of generate_repair_prompt: the repair step returns repaired code
\* that has no banned phrase in it
generate_repair_prompt_clean(code, validation_result) ==
    <<<<"let ", "repaired = 1;">>>>

\* ReflexionLoop::generate_repair_prompt: the format! of lines 121-143
generate_repair_prompt(code, validation_result) ==
    StrConcat(<<
        <<<<>>,
          <<"###_STERILIZATION_PROTOCOL_v1_###">>,
          <<>>,
          <<"The following code failed the sterilization check:">>,
          <<>>,
          <<CodeFence, detect_language(code)>>,
          <<>>>>,
        code,
        <<<<>>, <<CodeFence>>, <<>>, <<"Error Details:">>, <<>>>>,
        analyze_errors(validation_result),
        <<<<>>,
          <<>>,
          <<"You must fix ALL errors. Do not remove comments or ", "TODO",
            "s - implement the missing logic.">>,
          <<"Every ", "function ", "must contain complete, executable code.">>,
          <<"Code containing placeholders will trigger a fatal build error.">>,
          <<>>,
          <<"Generate the complete, fixed code:">>,
          <<>>>>
    >>)

\* a mutant of RepairContext: the record carries the 0-based pass number
RepairContextZeroBased(iteration, original_code, validation_result, repaired_code, success) ==
    [iteration |-> iteration - 1, original_code |-> original_code,
     validation_result |-> validation_result,
     error_analysis |-> analyze_errors(validation_result),
     repaired_code |-> repaired_code, success |-> success]

\* RepairContext
RepairContext(iteration, original_code, validation_result, repaired_code, success) ==
    [iteration |-> iteration, original_code |-> original_code,
     validation_result |-> validation_result,
     error_analysis |-> analyze_errors(validation_result),
     repaired_code |-> repaired_code, success |-> success]

\* the Err of lines 49-52
MaxRetriesError(retries) ==
    [ok |-> FALSE,
     value |-> Str(<<"Max retries (", ToString(retries), ") exceeded. Failed to repair code.">>)]

LoopOk(code) == [ok |-> TRUE, value |-> code]

\* no ReflexionLoop::execute call has been made yet
IdleLoop ==
    [pc |-> "idle", calls |-> 0, initial_code |-> EmptyStr, current_code |-> EmptyStr,
     validate_calls |-> 0, repair_calls |-> 0, result |-> LoopOk(EmptyStr),
     entry_iteration |-> 0, entry_history |-> <<>>, fns |-> <<>>,
     exhausted_before |-> FALSE]

\* entry of ReflexionLoop::execute (line 43); fns holds the closures passed as
\* validate_fn and repair_fn, exhausted_before tells whether an earlier call on
\* this instance returned the max-retries error
EnterLoop(initial_code, fns) ==
    [pc |-> "running", calls |-> call.calls + 1, initial_code |-> initial_code,
     current_code |-> initial_code, validate_calls |-> 0, repair_calls |-> 0,
     result |-> LoopOk(EmptyStr),
     entry_iteration |-> current_iteration, entry_history |-> repair_history,
     fns |-> fns,
     exhausted_before |-> call.exhausted_before \/ call.pc = "err"]

\* a mutant of RetriesExceeded: the budget is never found exceeded
RetriesExceededNever(iteration, retries) == FALSE

\* a mutant of RetriesExceeded: the budget check lets one more iteration through
RetriesExceededLate(iteration, retries) == iteration > retries + 1

\* the budget check of line 48
RetriesExceeded(iteration, retries) == iteration > retries

\* a mutant of PassedCode: the loop returns the code it was called with
PassedCodeInitial(c) == c.initial_code

\* the code returned when validation passes (line 73)
PassedCode(c) == c.current_code

\* a mutant of LoopBody: the repaired candidate is recorded but the loop goes
\* on with the code it had (line 81 is missing)
LoopBodyKeepingCode(validation_result, repaired_code) ==
    /\ call.pc = "running"
    /\ current_iteration' = current_iteration + 1
    /\ IF RetriesExceeded(current_iteration + 1, max_retries)
       THEN /\ call' = [call EXCEPT !.pc = "err", !.result = MaxRetriesError(max_retries)]
            /\ UNCHANGED repair_history
       ELSE IF validation_result.passed
       THEN /\ repair_history' =
                  Append(repair_history,
                         RepairContext(current_iteration + 1, call.current_code,
                                       validation_result, Some(call.current_code), TRUE))
            /\ call' = [call EXCEPT !.pc = "ok", !.result = LoopOk(PassedCode(call)),
                                    !.validate_calls = @ + 1]
       ELSE /\ repair_history' =
                  Append(repair_history,
                         RepairContext(current_iteration + 1, call.current_code,
                                       validation_result, Some(repaired_code), FALSE))
            /\ call' = [call EXCEPT !.validate_calls = @ + 1, !.repair_calls = @ + 1]
    /\ UNCHANGED max_retries

\* one pass through the loop of ReflexionLoop::execute (lines 45-82);
\* validation_result is what validate_fn returns on the current code and
\* repaired_code what repair_fn returns on it when the validation failed
LoopBody(validation_result, repaired_code) ==
    /\ call.pc = "running"
    /\ current_iteration' = current_iteration + 1
    /\ IF RetriesExceeded(current_iteration + 1, max_retries)
       THEN /\ call' = [call EXCEPT !.pc = "err", !.result = MaxRetriesError(max_retries)]
            /\ UNCHANGED repair_history
       ELSE IF validation_result.passed
       THEN /\ repair_history' =
                  Append(repair_history,
                         RepairContext(current_iteration + 1, call.current_code,
                                       validation_result, Some(call.current_code), TRUE))
            /\ call' = [call EXCEPT !.pc = "ok", !.result = LoopOk(PassedCode(call)),
                                    !.validate_calls = @ + 1]
       ELSE /\ repair_history' =
                  Append(repair_history,
                         RepairContext(current_iteration + 1, call.current_code,
                                       validation_result, Some(repaired_code), FALSE))
            /\ call' = [call EXCEPT !.current_code = repaired_code,
                                    !.validate_calls = @ + 1, !.repair_calls = @ + 1]
    /\ UNCHANGED max_retries

(***************************************************************************)
(* Orchestrator.  The agents (planner, librarian, builder, auditor) are    *)
(* collaborators whose code is outside the sources at hand; they are       *)
(* modelled by their contracts.                                            *)
(***************************************************************************)
Requirements == {"single", "pair", "chain", "diamond"}

\* the units the planner decomposes each requirement into, in insertion order
Plan(requirement) ==
    CASE requirement = "single" ->
            <<DependencyNode("A", "Rust", "if1", <<>>)>>
      [] requirement = "pair" ->
            <<DependencyNode("A", "Config", "if1", <<>>),
              DependencyNode("B", "Rust", "if2", <<>>)>>
      [] requirement = "chain" ->
            <<DependencyNode("A", "Rust", "if1", <<>>),
              DependencyNode("B", "Python", "if2", <<"A">>)>>
      [] requirement = "diamond" ->
            <<DependencyNode("A", "Rust", "if1", <<>>),
              DependencyNode("B", "Rust", "if2", <<"A">>),
              DependencyNode("C", "Config", "if1", <<"A">>),
              DependencyNode("D", "JavaScript", "if2", <<"B", "C">>)>>

\* ArchitectAgent::generate_dag: the planner's units inserted one by one
RECURSIVE InsertAll(_, _)
InsertAll(g, units) ==
    IF units = <<>> THEN [ok |-> TRUE, graph |-> g]
    ELSE LET r == add_node(g, Head(units))
         IN  IF r.ok THEN InsertAll(r.graph, Tail(units)) ELSE [ok |-> FALSE, graph |-> g]

generate_dag(requirement) == InsertAll(NewGraph, Plan(requirement))

\* LibrarianAgent::get_pruned_context: the interfaces of the direct dependencies
get_pruned_context(node_id, g) == get_reachable_context(g, node_id)

\* BuilderAgent::generate_code: the generator may propose any text; these are a
\* clean one, one with a placeholder comment and one with a Rust stub macro
CleanCode == <<<<"let ", "x = 1;">>>>
TodoCode == <<<<"let ", "x = 1;">>, <<"// TODO">>>>
StubCode == <<<<"fn ", "f", "(", ")", " ", "{", " ", "todo!()", " ", "}">>>>
Candidates == {CleanCode, TodoCode, StubCode}

\* AuditorAgent::validate: the static validator
AuditorValidate(code, language) == validate(code, language)

\* the match on node.module_type (lines 72-78)
LanguageOf(module_type) ==
    CASE module_type = "Python" -> "python"
      [] module_type = "Rust" -> "rust"
      [] module_type = "JavaScript" -> "javascript"
      [] module_type = "TypeScript" -> "typescript"
      [] OTHER -> "unknown"

\* GeneratedFile
GeneratedFile(path, content, language, validation_passed) ==
    [path |-> path, content |-> content, language |-> language,
     validation_passed |-> validation_passed]

\* the message pushed on all_errors (line 90)
RepairFailure(node_id, e) == StrCat(Str(<<"Failed to repair ", node_id, ": ">>), e)

\* a mutant of Success: recorded failures are ignored
SuccessIgnoringErrors(validation_passed, all_errors) == validation_passed

\* line 116
Success(validation_passed, all_errors) == validation_passed /\ all_errors = <<>>

\* OrchestrationResult (lines 115-124)
OrchestrationResult(generated_files, total_iterations, all_errors) ==
    LET validation_passed ==
            \A i \in DOMAIN generated_files : generated_files[i].validation_passed
    IN  [success |-> Success(validation_passed, all_errors),
         generated_files |-> generated_files,
         total_iterations |-> total_iterations,
         validation_passed |-> validation_passed,
         errors |-> all_errors]

(***************************************************************************)
(* SpecDag: the graph operations applied to a graph grown by add_node.     *)
(***************************************************************************)
NoOp == [op |-> "none", id |-> "", deps |-> <<>>, ok |-> TRUE, before |-> NewGraph,
         sort |-> SortErr, context |-> <<>>]

AddNode ==
    /\ adds < MaxAdds
    /\ \E id \in DagIds, deps \in DepLists, iface \in Interfaces :
          LET r == add_node(dag, DependencyNode(id, "Config", iface, deps))
          IN  /\ dag' = r.graph
              /\ last' = [NoOp EXCEPT !.op = "add_node", !.id = id, !.deps = deps,
                                      !.ok = r.ok, !.before = dag]
    /\ adds' = adds + 1
    /\ UNCHANGED loopVars
    /\ UNCHANGED orch

TopologicalSort ==
    /\ \E key_order \in KeyOrders(DOMAIN dag.nodes), overflow_checks \in BOOLEAN :
          last' = [NoOp EXCEPT !.op = "topological_sort", !.before = dag,
                               !.sort = topological_sort(dag, key_order, overflow_checks)]
    /\ UNCHANGED <<dag, adds, orch>>
    /\ UNCHANGED loopVars

GetReachableContext ==
    /\ \E node_id \in DagIds :
          last' = [NoOp EXCEPT !.op = "get_reachable_context", !.id = node_id, !.before = dag,
                               !.context = get_reachable_context(dag, node_id)]
    /\ UNCHANGED <<dag, adds, orch>>
    /\ UNCHANGED loopVars

\* no Orchestrator::execute call has been made yet; librarian is the index of
\* the LibrarianAgent, which lives as long as the Orchestrator; previous is
\* what the caller got from the call before this one
IdleOrch ==
    [pc |-> "idle", runs |-> 0, requirement |-> "", dag |-> NewGraph,
     execution_order |-> <<>>, position |-> 0, node_id |-> "", language |-> "",
     generated_files |-> <<>>, total_iterations |-> 0, all_errors |-> <<>>,
     attempts |-> <<>>, result |-> <<>>, librarian |-> <<>>, previous |-> None]

\* ReflexionLoop::new
NewLoop(retries) ==
    /\ max_retries = retries
    /\ current_iteration = 0
    /\ repair_history = <<>>
    /\ call = IdleLoop

InitDag ==
    /\ dag = NewGraph
    /\ adds = 0
    /\ last = NoOp
    /\ NewLoop(0)
    /\ orch = IdleOrch

NextDag == AddNode \/ TopologicalSort \/ GetReachableContext

SpecDag == InitDag /\ [][NextDag]_vars

(***************************************************************************)
(* Claims about the dependency graph (checked under SpecDag).              *)
(***************************************************************************)
\* every declared dependency of every inserted unit is itself an inserted unit
AllDepsInserted(g) ==
    \A u \in DOMAIN g.nodes : Range(g.nodes[u].dependencies) \subseteq DOMAIN g.nodes

\* the position of id in a duplicate-free sequence that contains it
PositionIn(order, id) == CHOOSE i \in DOMAIN order : order[i] = id

IsPermutationOf(order, S) ==
    /\ Len(order) = Cardinality(S)
    /\ Range(order) = S

\* C1: for every graph built by successful add_node calls in which every
\* declared dependency is an inserted node, topological_sort returns Ok with a
\* permutation of all node ids in which each dependency precedes its dependents.
C1_TopologicalOrder ==
    (last.op = "topological_sort" /\ AllDepsInserted(dag)) =>
        /\ last.sort.kind = "Ok"
        /\ IsPermutationOf(last.sort.order, DOMAIN dag.nodes)
        /\ \A u \in DOMAIN dag.nodes :
              \A d \in Range(dag.nodes[u].dependencies) :
                  PositionIn(last.sort.order, d) < PositionIn(last.sort.order, u)

\* the ids reachable from the set S along recorded dependency edges (S included)
RECURSIVE ReachableFrom(_, _)
ReachableFrom(g, S) ==
    LET step == S \cup UNION {Range(g.adjacency_list[u]) : u \in S \cap DOMAIN g.adjacency_list}
    IN  IF step = S THEN S ELSE ReachableFrom(g, step)

\* C2: add_node on a unit whose dependencies reach the unit's own identifier,
\* directly or through a chain of recorded edges, returns an error and leaves
\* nodes, adjacency_list and reverse_adjacency as they were before the call.
C2_CyclicInsertRejected ==
    (last.op = "add_node" /\ last.id \in ReachableFrom(last.before, Range(last.deps))) =>
        /\ ~last.ok
        /\ dag = last.before

\* a rejected insertion whose cycle runs through a recorded edge (no self-reference)
C2_Witness ==
    /\ last.op = "add_node"
    /\ last.id \notin Range(last.deps)
    /\ last.id \in ReachableFrom(last.before, Range(last.deps))
    /\ ~last.ok
    /\ DOMAIN dag.nodes # {}

\* the indexes of the declared dependencies of u that are inserted nodes
PresentDeps(g, u) ==
    {i \in DOMAIN g.nodes[u].dependencies : g.nodes[u].dependencies[i] \in DOMAIN g.nodes}

LoopCodes == {Str(<<"v1">>), Str(<<"v2">>)}

LoopVerdicts ==
    {ValidationResult(TRUE, <<>>),
     ValidationResult(FALSE, <<ValidationError("Error", <<"rejected">>, None, "LintError")>>)}

\* a mutant of Execute: the call starts by resetting the iteration counter
ExecuteWithReset ==
    /\ call.pc # "running"
    /\ call.calls < MaxCalls
    /\ \E initial_code \in LoopCodes,
          validate_fn \in [LoopCodes -> LoopVerdicts],
          repair_fn \in [LoopCodes -> LoopCodes] :
          call' = [EnterLoop(initial_code, [validate |-> validate_fn, repair |-> repair_fn])
                      EXCEPT !.entry_iteration = 0]
    /\ current_iteration' = 0
    /\ UNCHANGED <<max_retries, repair_history, orch>>
    /\ UNCHANGED dagVars

\* a call of ReflexionLoop::execute: the initial code and the two closures, each
\* a function of the code it is given (repair_fn's second argument is the
\* verdict of validate_fn on that same code)
Execute ==
    /\ call.pc # "running"
    /\ call.calls < MaxCalls
    /\ \E initial_code \in LoopCodes,
          validate_fn \in [LoopCodes -> LoopVerdicts],
          repair_fn \in [LoopCodes -> LoopCodes] :
          call' = EnterLoop(initial_code, [validate |-> validate_fn, repair |-> repair_fn])
    /\ UNCHANGED <<max_retries, current_iteration, repair_history, orch>>
    /\ UNCHANGED dagVars

Iterate ==
    /\ LoopBody(call.fns.validate[call.current_code], call.fns.repair[call.current_code])
    /\ UNCHANGED orch
    /\ UNCHANGED dagVars

InitLoop ==
    /\ dag = NewGraph
    /\ adds = 0
    /\ last = NoOp
    /\ \E retries \in 0..MaxRetryBudget : NewLoop(retries)
    /\ orch = IdleOrch

NextLoop == Execute \/ Iterate

SpecLoop == InitLoop /\ [][NextLoop]_vars

(***************************************************************************)
(* Claims about the repair loop (checked under SpecLoop).                  *)
(***************************************************************************)
\* the execute call in progress started on a loop fresh from ReflexionLoop::new
FreshCall == call.entry_iteration = 0 /\ call.entry_history = <<>>

CallReturned == call.pc \in {"ok", "err"}

\* C3: on a fresh loop with max_retries = N and a validate function that never
\* reports passed, execute returns the retries-exceeded error naming N after
\* exactly N+1 calls to validate and exactly N calls to repair.
C3_ExhaustionAfterNPlusOneValidations ==
    (/\ CallReturned
     /\ FreshCall
     /\ \A c \in LoopCodes : ~call.fns.validate[c].passed) =>
        /\ call.result = MaxRetriesError(max_retries)
        /\ call.validate_calls = max_retries + 1
        /\ call.repair_calls = max_retries

\* C4: for every retry budget max_retries >= 0, execute on a fresh loop with a
\* validate function that reports passed on its first call returns Ok with the
\* initial code unchanged, leaves current_iteration = 1 and never calls repair.
C4_FirstPassReturnsInitialCode ==
    (/\ CallReturned
     /\ FreshCall
     /\ call.fns.validate[call.initial_code].passed) =>
        /\ call.result = LoopOk(call.initial_code)
        /\ current_iteration = 1
        /\ call.repair_calls = 0

\* C5 as stated: in any single invocation of execute the number of validate
\* calls plus the number of repair calls is at most max_retries + 1.
C5_CombinedCallBudget ==
    call.validate_calls + call.repair_calls <= max_retries + 1

\* C5 amended: in any single invocation of execute the number of validate calls
\* is at most max_retries + 1 and the number of repair calls is at most
\* max_retries, so the two together never exceed 2 * max_retries + 1.
C5_SeparateCallBudgets ==
    /\ call.validate_calls <= max_retries + 1
    /\ call.repair_calls <= max_retries
    /\ call.validate_calls + call.repair_calls <= 2 * max_retries + 1

\* an invocation that used its whole budget of repair calls and ran out of retries
C5_Witness ==
    /\ call.pc = "err"
    /\ max_retries >= 2
    /\ call.repair_calls = max_retries
    /\ call.validate_calls >= 2

(***************************************************************************)
(* SpecOrch: Orchestrator::execute runs on one Orchestrator instance.      *)
(***************************************************************************)
\* the call that has returned, as its caller saw it: the requirement, the
\* candidates the builder produced, and the Ok or Err that came back
Returned ==
    IF orch.pc = "idle" THEN None
    ELSE Some([requirement |-> orch.requirement,
               candidates |-> {<<orch.attempts[i].node_id, orch.attempts[i].initial_code>> :
                                  i \in DOMAIN orch.attempts},
               ok |-> orch.pc = "done",
               result |-> orch.result])

\* a mutant of AfterSort: an Err of the sort is dropped and the run goes on
\* with the order it has
AfterSortIgnoringErr(run, sorted) ==
    IF sorted.kind \in {"Ok", "Err"}
    THEN [run EXCEPT !.pc = "units", !.position = 1, !.execution_order = sorted.order]
    ELSE [run EXCEPT !.pc = "panicked"]

\* line 54: the ? operator on the result of the sort
AfterSort(run, sorted) ==
    IF sorted.kind = "Ok"
    THEN [run EXCEPT !.pc = "units", !.position = 1, !.execution_order = sorted.order]
    ELSE IF sorted.kind = "Err"
    THEN [run EXCEPT !.pc = "failed"]
    ELSE [run EXCEPT !.pc = "panicked"]

\* lines 50-57: plan, sort, and the empty accumulators
ExecuteBegin ==
    /\ orch.pc \in {"idle", "done", "failed"}
    /\ orch.runs < MaxRuns
    /\ \E requirement \in Requirements, overflow_checks \in BOOLEAN :
          LET planned == generate_dag(requirement)
          IN  \E key_order \in KeyOrders(DOMAIN planned.graph.nodes) :
                 LET sorted == IF planned.ok
                               THEN topological_sort(planned.graph, key_order, overflow_checks)
                               ELSE SortErr
                     run == [IdleOrch EXCEPT !.runs = orch.runs + 1,
                                             !.requirement = requirement,
                                             !.librarian = orch.librarian,
                                             !.previous = Returned,
                                             !.dag = planned.graph]
                 IN  orch' = AfterSort(run, sorted)
    /\ UNCHANGED loopVars
    /\ UNCHANGED dagVars

\* lines 61-86: the unit's context and initial candidate, then the call of
\* reflexion_loop.execute
UnitBegin ==
    /\ orch.pc = "units"
    /\ orch.position <= Len(orch.execution_order)
    /\ LET node_id == orch.execution_order[orch.position]
       IN  IF node_id \notin DOMAIN orch.dag.nodes
           THEN /\ orch' = [orch EXCEPT !.pc = "failed"]
                /\ UNCHANGED call
           ELSE LET node == orch.dag.nodes[node_id]
                    context == get_pruned_context(node_id, orch.dag)
                    language == LanguageOf(node.module_type)
                IN  \E initial_code \in Candidates :
                       /\ orch' = [orch EXCEPT !.pc = "loop", !.node_id = node_id,
                                               !.language = language]
                       /\ call' = EnterLoop(initial_code, [language |-> language])
    /\ UNCHANGED <<max_retries, current_iteration, repair_history>>
    /\ UNCHANGED dagVars

\* one pass of the repair loop with the closures of lines 82-86
UnitIterate ==
    /\ orch.pc = "loop"
    /\ LET validation == AuditorValidate(call.current_code, call.fns.language)
       IN  LoopBody(validation, generate_repair_prompt(call.current_code, validation))
    /\ UNCHANGED orch
    /\ UNCHANGED dagVars

\* what the run remembers of the unit whose loop has returned
Attempt ==
    [node_id |-> orch.node_id, initial_code |-> call.initial_code,
     entry_iteration |-> call.entry_iteration, entry_history |-> Len(call.entry_history),
     validate_calls |-> call.validate_calls, repair_calls |-> call.repair_calls,
     ok |-> call.result.ok]

\* a mutant of UnitEnd: the Err arm goes on to the next unit without recording
\* the failure
UnitEndDroppingFailures ==
    /\ orch.pc = "loop"
    /\ call.pc \in {"ok", "err"}
    /\ IF ~call.result.ok
       THEN orch' = [orch EXCEPT !.pc = "units", !.position = @ + 1,
                                 !.attempts = Append(@, Attempt)]
       ELSE LET final_code == call.result.value
                node == orch.dag.nodes[orch.node_id]
                final_validation == AuditorValidate(final_code, orch.language)
            IN  orch' = [orch EXCEPT !.pc = "units", !.position = @ + 1,
                                     !.attempts = Append(@, Attempt),
                                     !.total_iterations = @ + current_iteration,
                                     !.generated_files =
                                         Append(@, GeneratedFile(node.file_path, final_code,
                                                                 orch.language,
                                                                 final_validation.passed)),
                                     !.librarian = Append(@, node.file_path)]
    /\ UNCHANGED loopVars
    /\ UNCHANGED dagVars

\* a mutant of UnitEnd: the Err arm records the failure and has no continue, so
\* the candidate the loop gave up on is validated and pushed as an artifact
UnitEndKeepingFailed ==
    /\ orch.pc = "loop"
    /\ call.pc \in {"ok", "err"}
    /\ LET final_code == IF call.result.ok THEN call.result.value ELSE call.current_code
           node == orch.dag.nodes[orch.node_id]
           final_validation == AuditorValidate(final_code, orch.language)
       IN  orch' = [orch EXCEPT !.pc = "units", !.position = @ + 1,
                                !.attempts = Append(@, Attempt),
                                !.all_errors =
                                    IF call.result.ok THEN @
                                    ELSE Append(@, RepairFailure(orch.node_id,
                                                                 call.result.value)),
                                !.total_iterations = @ + current_iteration,
                                !.generated_files =
                                    Append(@, GeneratedFile(node.file_path, final_code,
                                                            orch.language,
                                                            final_validation.passed)),
                                !.librarian = Append(@, node.file_path)]
    /\ UNCHANGED loopVars
    /\ UNCHANGED dagVars

\* lines 87-113: the match on the loop's result and the rest of the for body
UnitEnd ==
    /\ orch.pc = "loop"
    /\ call.pc \in {"ok", "err"}
    /\ IF ~call.result.ok
       THEN orch' = [orch EXCEPT !.pc = "units", !.position = @ + 1,
                                 !.attempts = Append(@, Attempt),
                                 !.all_errors =
                                     Append(@, RepairFailure(orch.node_id, call.result.value))]
       ELSE LET final_code == call.result.value
                node == orch.dag.nodes[orch.node_id]
                final_validation == AuditorValidate(final_code, orch.language)
            IN  orch' = [orch EXCEPT !.pc = "units", !.position = @ + 1,
                                     !.attempts = Append(@, Attempt),
                                     !.total_iterations = @ + current_iteration,
                                     !.generated_files =
                                         Append(@, GeneratedFile(node.file_path, final_code,
                                                                 orch.language,
                                                                 final_validation.passed)),
                                     !.librarian = Append(@, node.file_path)]
    /\ UNCHANGED loopVars
    /\ UNCHANGED dagVars

\* lines 115-124
ExecuteEnd ==
    /\ orch.pc = "units"
    /\ orch.position > Len(orch.execution_order)
    /\ orch' = [orch EXCEPT !.pc = "done",
                            !.result = OrchestrationResult(orch.generated_files,
                                                           orch.total_iterations,
                                                           orch.all_errors)]
    /\ UNCHANGED loopVars
    /\ UNCHANGED dagVars

\* Orchestrator::new
InitOrch ==
    /\ dag = NewGraph
    /\ adds = 0
    /\ last = NoOp
    /\ \E retries \in 0..MaxRetryBudget : NewLoop(retries)
    /\ orch = IdleOrch

NextOrch == ExecuteBegin \/ UnitBegin \/ UnitIterate \/ UnitEnd \/ ExecuteEnd

SpecOrch == InitOrch /\ [][NextOrch]_vars

(***************************************************************************)
(* Claims about the orchestrator (checked under SpecOrch).                 *)
(***************************************************************************)
RunReturned == orch.pc \in {"done", "failed", "panicked"}

Attempted(id) == \E i \in DOMAIN orch.attempts : orch.attempts[i].node_id = id

AttemptOf(id) == orch.attempts[CHOOSE i \in DOMAIN orch.attempts : orch.attempts[i].node_id = id]

\* the initial candidate generated for the attempt passes the static validator
CleanCandidate(attempt) ==
    AuditorValidate(attempt.initial_code,
                    LanguageOf(orch.dag.nodes[attempt.node_id].module_type)).passed

\* the failure message recorded for a unit whose loop ran out of retries
ExhaustionMessage(id) == RepairFailure(id, MaxRetriesError(max_retries).value)

\* the artifacts of the result, as the set of their paths
ArtifactPaths(result) == {result.generated_files[i].path : i \in DOMAIN result.generated_files}

\* C6: diamond A, B(A), C(A), D(B, C): execute processes A first and D last;
\* when A's and C's candidates pass at once and B exhausts its retries, D is
\* still generated and validated, success is false, B's failure appears only in
\* errors, and generated_files holds A, C and D when D's candidate passes.
C6_DiamondScenario ==
    (orch.requirement = "diamond" /\ RunReturned) =>
        /\ orch.pc = "done"
        /\ Len(orch.execution_order) = 4
        /\ orch.execution_order[1] = "A"
        /\ orch.execution_order[4] = "D"
        /\ (/\ CleanCandidate(AttemptOf("A")) /\ AttemptOf("A").ok
            /\ CleanCandidate(AttemptOf("C")) /\ AttemptOf("C").ok
            /\ ~AttemptOf("B").ok) =>
               /\ Attempted("D")
               /\ AttemptOf("D").validate_calls >= 1
               /\ ~orch.result.success
               /\ orch.result.errors = <<ExhaustionMessage("B")>>
               /\ CleanCandidate(AttemptOf("D")) =>
                     /\ ArtifactPaths(orch.result) = {"A", "C", "D"}
                     /\ orch.result.validation_passed

\* C7: when one unit's repair loop ends with retries exceeded, a failure
\* message for that unit is recorded and every later unit of the execution
\* order is still attempted: its candidate is generated and validated at least
\* once, so a later unit with a clean candidate yields a passing artifact.
C7_ExhaustionDoesNotBlockLaterUnits ==
    orch.pc = "done" =>
        \A i \in DOMAIN orch.attempts :
            ~orch.attempts[i].ok =>
                /\ \E k \in DOMAIN orch.result.errors :
                      orch.result.errors[k] = ExhaustionMessage(orch.attempts[i].node_id)
                /\ Len(orch.attempts) = Len(orch.execution_order)
                /\ \A j \in (i + 1)..Len(orch.attempts) :
                      /\ orch.attempts[j].validate_calls >= 1
                      /\ CleanCandidate(orch.attempts[j]) =>
                            \E f \in DOMAIN orch.result.generated_files :
                                /\ orch.result.generated_files[f].path = orch.attempts[j].node_id
                                /\ orch.result.generated_files[f].validation_passed

\* C8: at the moment a unit's repair loop begins, the loop's iteration counter
\* is 0 and its repair_history is empty, whatever earlier units or earlier runs
\* consumed.
C8_FreshLoopPerUnit ==
    orch.pc = "loop" => (call.entry_iteration = 0 /\ call.entry_history = <<>>)

\* C9: whenever execute returns Ok, the result's success flag is true if and
\* only if every entry of generated_files has validation_passed = true and the
\* errors list is empty.
C9_SuccessIffAllPassedAndNoErrors ==
    orch.pc = "done" =>
        (orch.result.success <=>
            (/\ \A i \in DOMAIN orch.result.generated_files :
                    orch.result.generated_files[i].validation_passed
             /\ orch.result.errors = <<>>))

\* a run that returned passing artifacts together with a recorded failure
C9_Witness ==
    /\ orch.pc = "done"
    /\ orch.result.generated_files # <<>>
    /\ \A i \in DOMAIN orch.result.generated_files :
          orch.result.generated_files[i].validation_passed
    /\ orch.result.errors # <<>>
    /\ ~orch.result.success

(***************************************************************************)
(* SpecUnits: the graph operations on a graph grown by add_node from units *)
(* whose public interface names the unit, so that an interface found in a  *)
(* context tells which unit it came from.                                  *)
(***************************************************************************)
InterfaceOf(id) == "interface of " \o id

UnitDepLists == SeqsUpTo(DagIds, MaxUnitDeps)

AddUnit ==
    /\ adds < MaxUnits
    /\ \E id \in DagIds, deps \in UnitDepLists :
          LET r == add_node(dag, DependencyNode(id, "Config", InterfaceOf(id), deps))
          IN  /\ dag' = r.graph
              /\ last' = [NoOp EXCEPT !.op = "add_node", !.id = id, !.deps = deps,
                                      !.ok = r.ok]
    /\ adds' = adds + 1
    /\ UNCHANGED loopVars
    /\ UNCHANGED orch

QueryContext ==
    /\ \E node_id \in DagIds :
          last' = [NoOp EXCEPT !.op = "get_reachable_context", !.id = node_id,
                               !.context = get_reachable_context(dag, node_id)]
    /\ UNCHANGED <<dag, adds, orch>>
    /\ UNCHANGED loopVars

NextUnits == AddUnit \/ QueryContext

SpecUnits == InitDag /\ [][NextUnits]_vars

\* C11: get_reachable_context never returns the interface of a unit that is
\* not directly named in the queried unit's dependency list (no transitive
\* dependencies), and returns the empty sequence when the unit id is unknown
\* or the unit has no dependencies.
C11_OnlyDirectDependencies ==
    last.op = "get_reachable_context" =>
        IF last.id \in DOMAIN dag.nodes /\ dag.nodes[last.id].dependencies # <<>>
        THEN \A i \in DOMAIN last.context :
                \E d \in Range(dag.nodes[last.id].dependencies) :
                    last.context[i] = InterfaceOf(d)
        ELSE last.context = <<>>

\* the queried unit has an inserted dependency that itself depends on a third
\* inserted unit, and the context holds the direct dependency only
C11_Witness ==
    /\ last.op = "get_reachable_context"
    /\ last.id \in DOMAIN dag.nodes
    /\ \E d \in Range(dag.nodes[last.id].dependencies) \cap DOMAIN dag.nodes :
          /\ last.context = <<InterfaceOf(d)>>
          /\ \E t \in Range(dag.nodes[d].dependencies) \cap DOMAIN dag.nodes :
                t \notin Range(dag.nodes[last.id].dependencies) \cup {last.id}

(***************************************************************************)
(* Further claims about the dependency graph (checked under SpecDag).      *)
(***************************************************************************)
\* C12: topological_sort is deterministic: for a given graph every call
\* returns the same order, whatever order the in_degree map is iterated in
\* (ties among ready nodes are resolved by a fixed rule on identifiers).
C12_SortDeterministic ==
    (last.op = "topological_sort" /\ last.sort.kind = "Ok") =>
        \A key_order \in KeyOrders(DOMAIN dag.nodes), overflow_checks \in BOOLEAN :
            LET again == topological_sort(dag, key_order, overflow_checks)
            IN  again.kind = "Ok" => again.order = last.sort.order

(***************************************************************************)
(* SpecValidate: HermeticSandbox::validate applied to texts of a few lines *)
(* in each language the orchestrator can name.                             *)
(***************************************************************************)
LineChoices ==
    {<<>>,
     <<"x = 1">>,
     <<"#", " ", "TODO">>,
     <<"// TODO">>,
     <<"def ", "f", "(", ")", ":">>,
     <<"    ", "pass">>,
     <<"(">>,
     <<"todo!()">>,
     <<"raise ", "NotImplementedError">>,
     <<"    ", "...">>,
     <<")">>,
     <<"todo!(\"later\")">>}

Texts == UNION {[1..n -> LineChoices] : n \in 1..MaxLines}

Languages == {"python", "rust", "javascript", "typescript", "unknown"}

\* the text and the language of a validate call about to be made
InitValidate ==
    /\ dag = NewGraph
    /\ adds = 0
    /\ \E code \in Texts, language \in Languages :
          last = [op |-> "input", code |-> code, language |-> language,
                  result |-> ValidationResult(TRUE, <<>>)]
    /\ NewLoop(0)
    /\ orch = IdleOrch

Validate ==
    /\ last.op = "input"
    /\ last' = [last EXCEPT !.op = "validate",
                            !.result = validate(last.code, last.language)]
    /\ UNCHANGED <<dag, adds, orch>>
    /\ UNCHANGED loopVars

NextValidate == Validate

SpecValidate == InitValidate /\ [][NextValidate]_vars

\* the findings of the last validate call that have the given severity
FindingsOf(severity) ==
    {i \in DOMAIN last.result.errors : last.result.errors[i].severity = severity}

\* C13: for every code text and language, the result of validate has
\* passed = true if and only if none of its findings has severity Fatal or
\* Error; findings of severity Warning never change passed.
C13_PassedIffNoFatalOrError ==
    last.op = "validate" =>
        (last.result.passed <=> (FindingsOf("Fatal") = {} /\ FindingsOf("Error") = {}))

\* a passing result that carries a Warning, after a text whose only findings
\* in another language are of severity Error
C13_Witness ==
    /\ last.op = "validate"
    /\ last.result.passed
    /\ FindingsOf("Warning") # {}
    /\ LET python == validate(last.code, "python")
       IN  /\ ~python.passed
           /\ \A i \in DOMAIN python.errors : python.errors[i].severity = "Error"

\* C14: if line n (1-based) of the text contains a banned phrase, validate
\* returns a Fatal finding of type SterilizationViolation with line = n, and
\* passed = false.
C14_BannedPhraseReportedOnItsLine ==
    last.op = "validate" =>
        \A n \in DOMAIN last.code, k \in DOMAIN BannedPatterns :
            LineContains(last.code[n], BannedPatterns[k]) =>
                /\ ~last.result.passed
                /\ \E i \in DOMAIN last.result.errors :
                      /\ last.result.errors[i].severity = "Fatal"
                      /\ last.result.errors[i].error_type = "SterilizationViolation"
                      /\ last.result.errors[i].line = Some(n)

\* the phrase "TODO" on line 3 only, reported with line number 3
C14_Witness ==
    /\ last.op = "validate"
    /\ Len(last.code) = 3
    /\ LineContains(last.code[3], "TODO")
    /\ ~LineContains(last.code[1], "TODO")
    /\ ~LineContains(last.code[2], "TODO")
    /\ ~last.result.passed
    /\ \E i \in DOMAIN last.result.errors :
          /\ last.result.errors[i].line = Some(3)
          /\ last.result.errors[i].severity = "Fatal"
          /\ last.result.errors[i].error_type = "SterilizationViolation"

(***************************************************************************)
(* Further claims about the orchestrator (checked under SpecOrch).         *)
(***************************************************************************)
\* C15: with deterministic planner, generator and repairer, two runs on the
\* same requirement, also two successive runs on the same Orchestrator,
\* return identical results (same success flag, artifacts, total_iterations
\* and errors).
C15_RepeatedRunSameResult ==
    (/\ orch.pc = "done"
     /\ orch.previous # None
     /\ orch.previous[1].ok
     /\ orch.previous[1].requirement = orch.requirement
     /\ orch.previous[1].candidates = Returned[1].candidates) =>
        orch.result = orch.previous[1].result

\* C16: every processed unit's interface is indexed (librarian.index_file is
\* called for it) before the next unit is processed, whether the unit's
\* repair loop succeeded or ended with retries exceeded.
C16_EveryProcessedUnitIndexed ==
    orch.pc \in {"units", "done"} =>
        \A i \in DOMAIN orch.attempts :
            orch.dag.nodes[orch.attempts[i].node_id].file_path \in Range(orch.librarian)

\* topological_sort returns Err for the graph, however its maps are iterated
SortFails(g) ==
    \A key_order \in KeyOrders(DOMAIN g.nodes), overflow_checks \in BOOLEAN :
        topological_sort(g, key_order, overflow_checks).kind = "Err"

\* C17: if topological_sort fails, or the order names a unit absent from the
\* graph, execute returns Err immediately: no candidate is generated, no
\* validate or repair call is made afterwards, and no OrchestrationResult is
\* produced.
C17_SortFailureAbortsRun ==
    /\ (orch.pc # "idle" /\ SortFails(orch.dag)) =>
           /\ orch.pc = "failed"
           /\ orch.attempts = <<>>
           /\ orch.generated_files = <<>>
    /\ orch.pc = "failed" => orch.result = <<>>

\* a run that failed at the sort, on an Orchestrator whose earlier run went
\* through its units and returned a result
C17_Witness ==
    /\ orch.pc = "failed"
    /\ SortFails(orch.dag)
    /\ orch.previous # None
    /\ orch.previous[1].ok
    /\ orch.previous[1].candidates # {}

(***************************************************************************)
(* SpecApp: the command generate_code_deterministic called on the          *)
(* Orchestrator that main puts in the application state.                   *)
(***************************************************************************)
\* main.rs line 188: Orchestrator::new(10)
AppMaxRetries == 10

\* main.rs line 143: max_retries.unwrap_or(10)
DefaultMaxRetries == 10

\* Option::unwrap_or
unwrap_or(option, default) == IF option = None THEN default ELSE option[1]

\* the values of the command's max_retries argument
RetryArgs == {None} \cup {Some(n) : n \in 0..MaxRetryBudget}

AppIdle == [op |-> "none", calls |-> 0, argument |-> None, max_retries |-> 0]

\* main: the application state
InitApp ==
    /\ dag = NewGraph
    /\ adds = 0
    /\ last = AppIdle
    /\ NewLoop(AppMaxRetries)
    /\ orch = IdleOrch

\* lines 138-144: the command is invoked, the local max_retries is computed
\* and the lock on the Orchestrator is taken
GenerateCodeDeterministic ==
    /\ orch.pc \in {"idle", "done", "failed"}
    /\ orch.runs < MaxRuns
    /\ last.calls = orch.runs
    /\ \E argument \in RetryArgs :
          last' = [op |-> "generate_code_deterministic", calls |-> last.calls + 1,
                   argument |-> argument,
                   max_retries |-> unwrap_or(argument, DefaultMaxRetries)]
    /\ UNCHANGED <<dag, adds, orch>>
    /\ UNCHANGED loopVars

\* line 146: orchestrator.execute(&requirement)
AppExecute ==
    /\ last.calls = orch.runs + 1
    /\ ExecuteBegin

NextApp ==
    GenerateCodeDeterministic \/ AppExecute \/ UnitBegin \/ UnitIterate \/ UnitEnd \/ ExecuteEnd

SpecApp == InitApp /\ [][NextApp]_vars

\* C18: the retry budget applied to each unit of a run started through
\* generate_code_deterministic(requirement, max_retries) equals the
\* max_retries argument of that call (10 when the argument is omitted).
C18_BudgetIsTheArgument ==
    (orch.pc = "loop" /\ last.calls = orch.runs) =>
        max_retries = unwrap_or(last.argument, DefaultMaxRetries)

(***************************************************************************)
(* Further claims about the dependency graph (checked under SpecUnits).    *)
(***************************************************************************)
\* C19: after any sequence of add_node calls (accepted or rejected, in any
\* order, with dependencies not yet inserted and with re-insertion of an
\* identifier already present), the dependency relation stored in
\* adjacency_list contains no cycle and no self-edge.
C19_AdjacencyAcyclic ==
    \A u \in DOMAIN dag.adjacency_list :
        u \notin ReachableFrom(dag, Range(dag.adjacency_list[u]))

\* the re-insertion of a unit already in the graph, naming a unit that depends
\* on it, was rejected
C19_Witness ==
    /\ last.op = "add_node"
    /\ ~last.ok
    /\ last.id \in DOMAIN dag.nodes
    /\ last.id \notin Range(last.deps)
    /\ last.id \in ReachableFrom(dag, Range(last.deps))
    /\ dag.adjacency_list[last.id] = <<>>

(***************************************************************************)
(* Claims about the iteration count of a run (checked under SpecOrch).     *)
(***************************************************************************)
\* the validate calls made for the units of the run whose repair loop succeeded
RECURSIVE SuccessfulIterations(_)
SuccessfulIterations(attempts) ==
    IF attempts = <<>> THEN 0
    ELSE (IF Head(attempts).ok THEN Head(attempts).validate_calls ELSE 0)
         + SuccessfulIterations(Tail(attempts))

\* C20: the total_iterations of the result returned by execute equals the
\* sum, over the units whose repair loop succeeded, of the number of loop
\* iterations (validate calls) performed for that unit in this run.
C20_TotalIterationsIsSumOverUnits ==
    orch.pc = "done" =>
        orch.result.total_iterations = SuccessfulIterations(orch.attempts)

(***************************************************************************)
(* SpecRisk: RiskCalculator::calculate_risk on a calculator built by       *)
(* RiskCalculator::new.  A string is here the sequence of its characters.  *)
(***************************************************************************)
ITERATION_COUNT == 10

TEMPERATURE == 0

REQUIRED_ENTROPY_COUNT == 1

RiskInputs == SeqsUpTo({"a", ":", "0"}, MaxInputLen)

\* compute_hash: SHA-256 in lower-case hexadecimal, taken as collision-free, so
\* the digest is named by the text it was computed from
compute_hash(input) == <<"sha256">> \o input

\* format!("{}:{}:{}", input, self.temperature, i); the f64 0.0 prints as 0
IterationInput(input, temperature, i) ==
    input \o <<":">> \o <<ToString(temperature)>> \o <<":">> \o <<ToString(i)>>

\* compute_risk_from_hashes; u32::MAX is written by name
compute_risk_from_hashes(hashes) ==
    IF hashes = <<>> THEN "u32::MAX"
    ELSE LET unique_count == Cardinality(Range(hashes))
         IN  IF unique_count = 1 THEN 0 ELSE unique_count * 10

\* compute_bio_proof: the first eight bytes of the digest of the joined hashes
compute_bio_proof(hashes) == <<"first 8 bytes of">> \o compute_hash(Flatten(hashes))

\* lines 54-58
AllMatch(hashes) ==
    IF Len(hashes) <= 1 THEN TRUE
    ELSE \A w \in 1..(Len(hashes) - 1) : hashes[w] = hashes[w + 1]

RiskResult(risk_score, entropy_count, all_hashes_match, hashes, bio_proof) ==
    [risk_score |-> risk_score, entropy_count |-> entropy_count,
     all_hashes_match |-> all_hashes_match, hashes |-> hashes, bio_proof |-> bio_proof]

\* RiskCalculator::new, and a call of calculate_risk that has passed the first
\* assertion (temperature is TEMPERATURE in every calculator) and reached the loop
InitRisk ==
    /\ dag = NewGraph
    /\ adds = 0
    /\ \E input \in RiskInputs :
          last = [op |-> "calculate_risk", pc |-> "loop", input |-> input,
                  temperature |-> TEMPERATURE, iteration_count |-> ITERATION_COUNT,
                  i |-> 0, hashes |-> <<>>, entropy_count |-> 0, result |-> None]
    /\ NewLoop(0)
    /\ orch = IdleOrch

\* lines 41-51: one pass of the for loop
RiskIterate ==
    /\ last.pc = "loop"
    /\ last.i < last.iteration_count
    /\ LET hash == compute_hash(IterationInput(last.input, last.temperature, last.i))
           seen == {last.hashes[k] : k \in 1..last.i}
       IN  last' = [last EXCEPT !.i = @ + 1,
                                !.hashes = Append(@, hash),
                                !.entropy_count =
                                    IF last.i = 0 \/ hash \notin seen THEN @ + 1 ELSE @]
    /\ UNCHANGED <<dag, adds, orch>>
    /\ UNCHANGED loopVars

\* lines 53-83: the assertion on entropy_count, then the result
RiskFinish ==
    /\ last.pc = "loop"
    /\ last.i = last.iteration_count
    /\ LET all_match == AllMatch(last.hashes)
           risk_score == IF all_match /\ last.entropy_count = REQUIRED_ENTROPY_COUNT
                         THEN 0
                         ELSE compute_risk_from_hashes(last.hashes)
       IN  IF last.entropy_count # REQUIRED_ENTROPY_COUNT
           THEN last' = [last EXCEPT !.pc = "panicked"]
           ELSE last' = [last EXCEPT !.pc = "returned",
                                     !.result = Some(RiskResult(risk_score, last.entropy_count,
                                                                all_match, last.hashes,
                                                                compute_bio_proof(last.hashes)))]
    /\ UNCHANGED <<dag, adds, orch>>
    /\ UNCHANGED loopVars

NextRisk == RiskIterate \/ RiskFinish

SpecRisk == InitRisk /\ [][NextRisk]_vars

\* C21: in calculate_risk the asserted condition entropy_count =
\* REQUIRED_ENTROPY_COUNT holds for every input after the ITERATION_COUNT
\* iterations, so the call returns a RiskResult, and the returned risk_score
\* is 0 only if all iteration hashes are equal.
C21_EntropyAssertionHolds ==
    ((last.pc = "loop" /\ last.i = last.iteration_count)
         \/ last.pc \in {"returned", "panicked"}) =>
        /\ last.entropy_count = REQUIRED_ENTROPY_COUNT
        /\ last.pc # "panicked"
        /\ (last.pc = "returned" /\ last.result[1].risk_score = 0) =>
               Cardinality(Range(last.hashes)) = 1

(***************************************************************************)
(* SpecToon: ToonParser::new.  A string is the sequence of its characters. *)
(***************************************************************************)
\* characters with the Unicode White_Space property, as str::trim_start skips
WhiteSpaceChars == {" ", "\t", "\n"}

ToonInputs == SeqsUpTo({" ", "\n", "{", "a", "="}, MaxToonLen)

\* str::trim_start
RECURSIVE trim_start(_)
trim_start(input) ==
    IF input # <<>> /\ Head(input) \in WhiteSpaceChars THEN trim_start(Tail(input)) ELSE input

\* a mutant of IsStandardJson: the input is not trimmed before the test
IsStandardJsonUntrimmed(input) == input # <<>> /\ Head(input) = "{"

\* line 59: input.trim_start().starts_with('{')
IsStandardJson(input) == trim_start(input) # <<>> /\ Head(trim_start(input)) = "{"

InitToon ==
    /\ dag = NewGraph
    /\ adds = 0
    /\ \E input \in ToonInputs :
          last = [op |-> "ToonParser::new", pc |-> "call", input |-> input, parser |-> None]
    /\ NewLoop(0)
    /\ orch = IdleOrch

\* ToonParser::new
ToonNew ==
    /\ last.pc = "call"
    /\ last' = IF IsStandardJson(last.input)
               THEN [last EXCEPT !.pc = "panicked"]
               ELSE [last EXCEPT !.pc = "constructed", !.parser = Some([input |-> last.input])]
    /\ UNCHANGED <<dag, adds, orch>>
    /\ UNCHANGED loopVars

NextToon == ToonNew

SpecToon == InitToon /\ [][NextToon]_vars

\* the first character of the input that is not white space is '{'
FirstNonWhitespaceIsBrace(input) ==
    \E k \in DOMAIN input :
        /\ input[k] = "{"
        /\ \A j \in 1..(k - 1) : input[j] \in WhiteSpaceChars

\* C22: ToonParser::new panics with the AxiomViolation message on every input
\* whose first non-whitespace character is '{', and constructs a parser for
\* every other input.
C22_JsonRejectedOthersConstructed ==
    last.pc # "call" =>
        IF FirstNonWhitespaceIsBrace(last.input)
        THEN last.pc = "panicked"
        ELSE last.pc = "constructed" /\ last.parser = Some([input |-> last.input])

\* an input with white space before its '{' was rejected
C22_Witness ==
    /\ last.pc = "panicked"
    /\ Len(last.input) >= 2
    /\ last.input[1] \in WhiteSpaceChars
    /\ FirstNonWhitespaceIsBrace(last.input)

(***************************************************************************)
(* Further claims about the repair loop (checked under SpecLoop).          *)
(***************************************************************************)
\* C23: once an execute call on a ReflexionLoop instance has returned the
\* max-retries error, every later execute call on that instance also returns
\* the max-retries error, without calling validate or repair and without
\* appending to repair_history, whatever the code passed in.
C23_ExhaustionIsSticky ==
    call.exhausted_before =>
        /\ call.validate_calls = 0
        /\ call.repair_calls = 0
        /\ repair_history = call.entry_history
        /\ CallReturned => call.result = MaxRetriesError(max_retries)

\* a later call whose code the validate function would have passed at once
C23_Witness ==
    /\ call.exhausted_before
    /\ call.pc = "err"
    /\ max_retries >= 1
    /\ call.fns.validate[call.initial_code].passed

\* the records appended to repair_history by the execute call in progress
InvocationRecords == SubSeq(repair_history, Len(call.entry_history) + 1, Len(repair_history))

\* C24: when validate reports passed in an iteration, the loop returns that
\* exact code at once with no repair call after it, and the record appended for
\* that iteration is the last record of the history and the only record of
\* this invocation with success = true.
C24_PassReturnsValidatedCodeAtOnce ==
    call.pc = "ok" =>
        LET records == InvocationRecords
            final == repair_history[Len(repair_history)]
        IN  /\ records # <<>>
            /\ final.validation_result.passed
            /\ final.success
            /\ final.iteration = current_iteration
            /\ call.result = LoopOk(final.original_code)
            /\ final.repaired_code = Some(final.original_code)
            /\ \A i \in 1..(Len(records) - 1) :
                  ~records[i].success /\ ~records[i].validation_result.passed
            /\ call.validate_calls = Len(records)
            /\ call.repair_calls = Len(records) - 1

\* a call that returned a repaired code: validation passed in its second iteration
C24_Witness ==
    /\ call.pc = "ok"
    /\ Len(InvocationRecords) = 2
    /\ call.result.value # call.initial_code

\* C25: when validate reports not passed in an iteration, repair is called
\* exactly once with the code just validated and its outcome; the returned
\* candidate is stored as repaired_code of that iteration's record and is the
\* code validated in the next iteration, so within one invocation each
\* record's original_code equals the previous record's repaired_code.
C25_RepairedCodeIsValidatedNext ==
    call.pc # "idle" =>
        LET records == InvocationRecords
            failing == {i \in DOMAIN records : ~records[i].validation_result.passed}
        IN  /\ \A i \in DOMAIN records :
                  /\ records[i].validation_result = call.fns.validate[records[i].original_code]
                  /\ records[i].original_code =
                        IF i = 1 THEN call.initial_code ELSE records[i - 1].repaired_code[1]
            /\ \A i \in failing :
                  records[i].repaired_code = Some(call.fns.repair[records[i].original_code])
            /\ call.repair_calls = Cardinality(failing)
            /\ (call.pc = "running" /\ records # <<>>) =>
                   call.current_code = records[Len(records)].repaired_code[1]

\* two failed iterations in one invocation, the repair having changed the code
C25_Witness ==
    /\ call.pc # "idle"
    /\ Len(InvocationRecords) = 2
    /\ ~InvocationRecords[1].validation_result.passed
    /\ ~InvocationRecords[2].validation_result.passed
    /\ InvocationRecords[2].original_code # InvocationRecords[1].original_code
    /\ call.repair_calls = 2

(***************************************************************************)
(* Claims about the sort's totality and the reverse edges (SpecDag).       *)
(***************************************************************************)
\* C26: topological_sort returns a Result (Ok or Err) without panicking for
\* every graph reachable by successful add_node calls, including graphs where
\* a dependency id names no inserted node and graphs where a node id was
\* inserted more than once with different dependencies.
C26_SortNeverPanics ==
    last.op = "topological_sort" => last.sort.kind \in {"Ok", "Err"}

\* how many times x occurs in the sequence s
Occurrences(s, x) == Cardinality({i \in DOMAIN s : s[i] = x})

\* C27: after any sequence of add_node calls, reverse_adjacency is the exact
\* inverse of adjacency_list: unit u is listed among the dependents of d if
\* and only if d is in u's current dependency list (with the same
\* multiplicity), also after a unit identifier has been re-inserted with a
\* different dependency list.
C27_ReverseIsInverse ==
    \A u \in DagIds, d \in DagIds :
        Occurrences(MapGetOr(dag.reverse_adjacency, d, <<>>), u) =
            Occurrences(MapGetOr(dag.adjacency_list, u, <<>>), d)

(***************************************************************************)
(* SpecLoopLive: SpecLoop with the loop of execute going on as long as it  *)
(* can; the closures return, so each pass of the loop completes.           *)
(***************************************************************************)
SpecLoopLive == SpecLoop /\ WF_vars(Iterate)

\* C28: ReflexionLoop::execute terminates for every initial code and every
\* validate and repair function that themselves return: it ends with Ok on the
\* first passing validation or with the max-retries error after at most
\* max_retries iterations.
C28_ExecuteTerminates ==
    /\ (call.pc = "running") ~> (call.pc \in {"ok", "err"})
    /\ [](call.validate_calls <= max_retries)
    /\ [](call.pc = "err" => call.result = MaxRetriesError(max_retries))
    /\ [](call.pc = "ok" => repair_history[Len(repair_history)].validation_result.passed)

\* a call that ended with the max-retries error after max_retries iterations
\* of a validate function that never passes
C28_Witness ==
    /\ call.pc = "err"
    /\ max_retries >= 2
    /\ call.validate_calls = max_retries
    /\ \A c \in LoopCodes : ~call.fns.validate[c].passed

(***************************************************************************)
(* SpecCommands: the commands generate_code_deterministic and              *)
(* get_agent_statuses invoked concurrently on the application state; each  *)
(* takes the tokio Mutex around the Orchestrator and keeps the guard until *)
(* it returns.  last holds the mutex and the position of each invocation.  *)
(***************************************************************************)
\* the command each concurrent invocation runs
Commands ==
    <<"generate_code_deterministic", "generate_code_deterministic", "get_agent_statuses">>

Invocations == DOMAIN Commands

\* the mutex of AppState.axiom_determinist with no guard alive
Unlocked == 0

\* a mutant of MutexFree: lock() hands out a guard whoever holds one
MutexAlwaysFree(owner) == TRUE

\* Mutex::lock().await completes only when no guard is alive
MutexFree(owner) == owner = Unlocked

CommandsIdle ==
    [op |-> "commands", mutex |-> Unlocked, pcs |-> [p \in Invocations |-> "idle"],
     calls |-> 0, observed |-> None]

\* main (lines 187-193): the application state
InitCommands ==
    /\ dag = NewGraph
    /\ adds = 0
    /\ last = CommandsIdle
    /\ NewLoop(AppMaxRetries)
    /\ orch = IdleOrch

\* the invocations of generate_code_deterministic that wait for the lock
WaitingRuns ==
    {p \in Invocations : Commands[p] = "generate_code_deterministic" /\ last.pcs[p] = "waiting"}

\* lines 138-144 and 176-179: a command is invoked and reaches lock().await
CommandInvoked ==
    /\ \E p \in Invocations :
          /\ last.pcs[p] = "idle"
          /\ Commands[p] = "generate_code_deterministic" =>
                /\ last.calls + Cardinality(WaitingRuns) < MaxRuns
                /\ orch.pc # "panicked"
          /\ last' = [last EXCEPT !.pcs[p] = "waiting"]
    /\ UNCHANGED <<dag, adds, orch>>
    /\ UNCHANGED loopVars

\* lines 144 and 179: lock().await returns the guard
LockAcquired ==
    /\ \E p \in Invocations :
          /\ last.pcs[p] = "waiting"
          /\ MutexFree(last.mutex)
          /\ last' = [last EXCEPT !.pcs[p] = "locked", !.mutex = p,
                                  !.calls = IF Commands[p] = "generate_code_deterministic"
                                            THEN @ + 1 ELSE @]
    /\ UNCHANGED <<dag, adds, orch>>
    /\ UNCHANGED loopVars

\* line 146: orchestrator.execute(&requirement), called with the guard in hand
CommandExecute ==
    /\ \E p \in Invocations :
          /\ Commands[p] = "generate_code_deterministic"
          /\ last.pcs[p] = "locked"
    /\ last.calls > orch.runs
    /\ ExecuteBegin

\* line 180: orchestrator.get_agent_statuses(), called with the guard in hand;
\* observed is what the command sees of the Orchestrator
GetAgentStatuses ==
    /\ \E p \in Invocations :
          /\ Commands[p] = "get_agent_statuses"
          /\ last.pcs[p] = "locked"
    /\ last.observed = None
    /\ last' = [last EXCEPT !.observed = Some([pc |-> orch.pc, runs |-> orch.runs])]
    /\ UNCHANGED <<dag, adds, orch>>
    /\ UNCHANGED loopVars

\* lines 147-156 and 182-183: the command returns (or unwinds) and its guard
\* is dropped
CommandReturns ==
    /\ \E p \in Invocations :
          /\ last.pcs[p] = "locked"
          /\ IF Commands[p] = "generate_code_deterministic"
             THEN /\ last.calls = orch.runs
                  /\ orch.pc \in {"done", "failed", "panicked"}
             ELSE last.observed # None
          /\ last' = [last EXCEPT !.pcs[p] = "idle", !.observed = None,
                                  !.mutex = IF @ = p THEN Unlocked ELSE @]
    /\ UNCHANGED <<dag, adds, orch>>
    /\ UNCHANGED loopVars

NextCommands ==
    \/ CommandInvoked \/ LockAcquired \/ CommandExecute \/ GetAgentStatuses \/ CommandReturns
    \/ UnitBegin \/ UnitIterate \/ UnitEnd \/ ExecuteEnd

SpecCommands == InitCommands /\ [][NextCommands]_vars

\* the invocations that hold a guard
GuardHolders == {p \in Invocations : last.pcs[p] = "locked"}

\* a run of execute is between its sort and its return
RunInProgress == orch.pc \in {"units", "loop"}

\* C29: at most one pipeline run is in flight on the shared Orchestrator: a
\* generate_code_deterministic invocation holds the mutex for the whole of
\* execute, so no second invocation holds a guard while a run is in progress,
\* and get_agent_statuses never observes a run in progress.
C29_OneRunInFlight ==
    /\ Cardinality(GuardHolders) <= 1
    /\ RunInProgress =>
          /\ last.mutex \in Invocations
          /\ Commands[last.mutex] = "generate_code_deterministic"
          /\ GuardHolders = {last.mutex}
    /\ last.observed # None => last.observed[1].pc \notin {"units", "loop"}
    /\ \A p \in GuardHolders :
          Commands[p] = "get_agent_statuses" => ~RunInProgress

\* a run is in its repair loop while a second generate_code_deterministic and
\* a get_agent_statuses wait for the lock
C29_Witness ==
    /\ orch.pc = "loop"
    /\ call.validate_calls >= 1
    /\ \E p \in Invocations :
          Commands[p] = "generate_code_deterministic" /\ last.pcs[p] = "waiting"
    /\ \E p \in Invocations :
          Commands[p] = "get_agent_statuses" /\ last.pcs[p] = "waiting"

(***************************************************************************)
(* Claims about the repair step of a run (checked under SpecOrch).         *)
(***************************************************************************)
\* the repair step has produced the candidate the loop is about to validate
Repaired == orch.pc = "loop" /\ call.pc = "running" /\ call.repair_calls >= 1

IsDefinition(line) == StartsWith(Trim(line), "def ") \/ StartsWith(Trim(line), "class ")

\* the lines from j up to the next definition or the end of the text hold a
\* no-op statement and otherwise only blank lines and comments
RECURSIVE SoleNoOpBody(_, _, _)
SoleNoOpBody(lines, j, found_no_op) ==
    IF j > Len(lines) \/ IsDefinition(lines[j]) THEN found_no_op
    ELSE LET line == Trim(lines[j])
         IN  IF line = <<"pass">> \/ line = <<"...">> THEN SoleNoOpBody(lines, j + 1, TRUE)
             ELSE IF line = <<>> \/ StartsWith(line, "#")
             THEN SoleNoOpBody(lines, j + 1, found_no_op)
             ELSE FALSE

\* C31: for a Python target, a function definition whose body consists solely
\* of pass (or ...), with nothing else before the next definition or the end
\* of the text, yields a Fatal EmptyBlock finding at the definition's 1-based
\* line and passed = false, also when another definition follows it.
C31_EmptyBodyReported ==
    (last.op = "validate" /\ last.language = "python") =>
        \A i \in DOMAIN last.code :
            (StartsWith(Trim(last.code[i]), "def ") /\ SoleNoOpBody(last.code, i + 1, FALSE)) =>
                /\ ~last.result.passed
                /\ \E k \in DOMAIN last.result.errors :
                      /\ last.result.errors[k].severity = "Fatal"
                      /\ last.result.errors[k].error_type = "EmptyBlock"
                      /\ last.result.errors[k].line = Some(i)

\* the first line after line i that is neither blank nor a comment (0 when
\* there is none)
RECURSIVE NextCodeLine(_, _)
NextCodeLine(lines, i) ==
    IF i + 1 > Len(lines) THEN 0
    ELSE LET line == Trim(lines[i + 1])
         IN  IF line = <<>> \/ StartsWith(line, "#") THEN NextCodeLine(lines, i + 1)
             ELSE i + 1

Indented(line) == StartsWith(line, "    ") \/ StartsWith(line, "\t")

\* C32: for a Python target, every line ending in ':' whose next line that is
\* neither blank nor a comment is not indented yields an Error "Expected
\* indented block" finding, so passed = false; blank and comment lines
\* between the colon line and that next line are skipped.
C32_MissingIndentReported ==
    (last.op = "validate" /\ last.language = "python") =>
        \A i \in DOMAIN last.code :
            LET n == NextCodeLine(last.code, i)
            IN  (EndsWithColon(Trim(last.code[i])) /\ n # 0 /\ ~Indented(last.code[n])) =>
                    /\ ~last.result.passed
                    /\ \E k \in DOMAIN last.result.errors :
                          /\ last.result.errors[k].severity = "Error"
                          /\ last.result.errors[k].message =
                                 <<"Expected indented block after colon">>

\* the running balance of one delimiter kind drops below zero somewhere in
\* the tokens, or does not end at zero
RECURSIVE Mismatched(_, _, _, _)
Mismatched(tokens, opener, closer, balance) ==
    IF balance < 0 THEN TRUE
    ELSE IF tokens = <<>> THEN balance # 0
    ELSE Mismatched(Tail(tokens), opener, closer,
                    balance + (IF Head(tokens) = opener THEN 1
                               ELSE IF Head(tokens) = closer THEN -1 ELSE 0))

DelimiterKinds ==
    {<<"(", ")", "Unmatched parentheses detected">>,
     <<"[", "]", "Unmatched square brackets detected">>,
     <<"{", "}", "Unmatched curly braces detected">>}

\* C33: for a Python target, validate reports an Error SyntaxError finding,
\* hence passed = false, whenever a delimiter kind is mismatched: its balance
\* over the whole text ends non-zero or a closing delimiter occurs with no
\* opener before it.
C33_MismatchedDelimiterReported ==
    (last.op = "validate" /\ last.language = "python") =>
        \A kind \in DelimiterKinds :
            Mismatched(Flatten(last.code), kind[1], kind[2], 0) =>
                /\ ~last.result.passed
                /\ \E k \in DOMAIN last.result.errors :
                      /\ last.result.errors[k].severity = "Error"
                      /\ last.result.errors[k].error_type = "SyntaxError"
                      /\ last.result.errors[k].message = <<kind[3]>>

\* LogitBias::new: banned_strings
banned_strings ==
    <<"TODO", "FIXME", "XXX", "HACK", "todo", "fixme", "xxx", "hack",
      "NotImplementedError", "NotImplemented", "pass", "return null", "return None",
      "omitted for brevity", "rest of code", "left as an exercise",
      "implementation omitted">>

\* the top-level table of the module
BANNED_TOKENS ==
    <<"TODO", "FIXME", "XXX", "HACK", "todo", "fixme", "xxx", "hack",
      " TODO", " FIXME", " XXX", " HACK",
      "NotImplementedError", "NotImplemented", "pass", "return null", "return None",
      "omitted for brevity", "rest of code", "left as an exercise",
      "implementation omitted">>

\* the tokens that end with a blank
BlankEndTokens == {" ", "    ", "def ", "raise ", "let ", "fn "}

\* the phrases that begin with a blank, with what follows the blank
BlankPhrases ==
    {<<" TODO", "TODO">>, <<" FIXME", "FIXME">>, <<" XXX", "XXX">>, <<" HACK", "HACK">>}

\* str::contains on one line for a phrase of the policy, which may begin at
\* the blank that ends one token and go on in the next
LineContainsPhrase(line, phrase) ==
    \/ LineContains(line, phrase)
    \/ \E pair \in BlankPhrases :
          /\ pair[1] = phrase
          /\ \E i \in 1..(Len(line) - 1) :
                line[i] \in BlankEndTokens /\ line[i + 1] = pair[2]

\* C34: every phrase banned by the Constraint Policy (banned_strings and the
\* BANNED_TOKENS table) is also rejected by the validator's placeholder scan:
\* a text containing one of them on some line gets a Fatal
\* SterilizationViolation finding.
C34_PolicyPhrasesRejected ==
    last.op = "validate" =>
        \A phrase \in Range(banned_strings) \cup Range(BANNED_TOKENS) :
            \A n \in DOMAIN last.code :
                LineContainsPhrase(last.code[n], phrase) =>
                    \E k \in DOMAIN last.result.errors :
                        /\ last.result.errors[k].severity = "Fatal"
                        /\ last.result.errors[k].error_type = "SterilizationViolation"

\* the tokens that are a call of a not-yet-implemented macro
StubMacroCalls == {"todo!()", "unimplemented!()", "todo!(\"later\")"}

\* C35: for a Rust target, any text in which a not-yet-implemented macro call
\* occurs (unimplemented! or todo!, with or without a message argument) yields
\* a Fatal SterilizationViolation finding and passed = false.
C35_StubMacroRejected ==
    (last.op = "validate" /\ last.language = "rust") =>
        ((\E n \in DOMAIN last.code : \E i \in DOMAIN last.code[n] :
              last.code[n][i] \in StubMacroCalls) =>
            /\ ~last.result.passed
            /\ \E k \in DOMAIN last.result.errors :
                  /\ last.result.errors[k].severity = "Fatal"
                  /\ last.result.errors[k].error_type = "SterilizationViolation")

(***************************************************************************)
(* Further claims about the repair loop (checked under SpecLoop).          *)
(***************************************************************************)
\* C36: after any sequence of execute calls on one ReflexionLoop instance,
\* the k-th record of repair_history (1-based) has iteration = k, records
\* already appended are never changed or removed, and the history length
\* never exceeds max_retries nor current_iteration.
C36_HistoryAppendOnly ==
    /\ [](\A k \in DOMAIN repair_history : repair_history[k].iteration = k)
    /\ [](Len(repair_history) <= max_retries /\ Len(repair_history) <= current_iteration)
    /\ [][/\ Len(repair_history') >= Len(repair_history)
          /\ SubSeq(repair_history', 1, Len(repair_history)) = repair_history]_vars

\* the second call on the instance has appended a record after the one the
\* first call left
C36_Witness ==
    /\ call.calls = 2
    /\ call.entry_history # <<>>
    /\ Len(repair_history) > Len(call.entry_history)
    /\ repair_history[Len(repair_history)].iteration = Len(repair_history)

(***************************************************************************)
(* Claims about the result of a run (checked under SpecOrch).              *)
(***************************************************************************)
\* the paths of the artifacts of the result, in the order of the result
ResultPaths(result) == [i \in DOMAIN result.generated_files |-> result.generated_files[i].path]

\* the failure messages of the result that name the unit
FailuresOf(result, id) ==
    {j \in DOMAIN result.errors : result.errors[j] = ExhaustionMessage(id)}

\* the units of the execution order that have an artifact, in that order
RECURSIVE UnitsWithArtifact(_, _)
UnitsWithArtifact(order, paths) ==
    IF order = <<>> THEN <<>>
    ELSE (IF orch.dag.nodes[Head(order)].file_path \in paths
          THEN <<orch.dag.nodes[Head(order)].file_path>> ELSE <<>>)
         \o UnitsWithArtifact(Tail(order), paths)

\* C37: whenever execute returns Ok, every unit of the execution order is
\* accounted for exactly once: the number of entries in generated_files plus
\* the number of entries in errors equals the number of nodes in the graph,
\* and generated_files lists its units in execution order.
C37_EveryUnitAccountedOnce ==
    orch.pc = "done" =>
        /\ Len(orch.result.generated_files) + Len(orch.result.errors)
               = Cardinality(DOMAIN orch.dag.nodes)
        /\ \A id \in DOMAIN orch.dag.nodes :
              Cardinality({i \in DOMAIN orch.result.generated_files :
                              orch.result.generated_files[i].path
                                  = orch.dag.nodes[id].file_path})
                  + Cardinality(FailuresOf(orch.result, id)) = 1
        /\ ResultPaths(orch.result)
               = UnitsWithArtifact(orch.execution_order, Range(ResultPaths(orch.result)))

\* a run over two units returned one artifact, for the unit processed first,
\* and one failure
C37_Witness ==
    /\ orch.pc = "done"
    /\ Len(orch.execution_order) = 2
    /\ Len(orch.result.errors) = 1
    /\ ResultPaths(orch.result) = <<orch.dag.nodes[orch.execution_order[1]].file_path>>

\* C38: every entry of generated_files returned by execute has
\* validation_passed = true (a unit whose loop failed contributes no entry,
\* and the final validation repeats the loop's passing validation), so the
\* result's validation_passed is always true and success is equivalent to
\* errors being empty.
C38_ArtifactsAlwaysPassed ==
    /\ \A i \in DOMAIN orch.generated_files : orch.generated_files[i].validation_passed
    /\ orch.pc = "done" =>
          /\ \A i \in DOMAIN orch.result.generated_files :
                /\ orch.result.generated_files[i].validation_passed
                /\ AuditorValidate(orch.result.generated_files[i].content,
                                   orch.result.generated_files[i].language).passed
          /\ orch.result.validation_passed
          /\ orch.result.success <=> (orch.result.errors = <<>>)

\* a run returned an artifact that passed with a Warning together with a
\* failure: validation_passed is true and success false
C38_Witness ==
    /\ orch.pc = "done"
    /\ orch.result.errors # <<>>
    /\ orch.result.validation_passed
    /\ ~orch.result.success
    /\ \E i \in DOMAIN orch.result.generated_files :
          /\ orch.result.generated_files[i].content = StubCode
          /\ orch.result.generated_files[i].language = "unknown"

====
